---- MODULE Spec2Model ----
(***************************************************************************)
(* Model of src/src/utils/url.ts: the rehypeLinks transformer, which       *)
(* prefixes root-relative anchor hrefs of a hast tree with a base path.    *)
(*                                                                         *)
(* JavaScript strings are sequences of one-character strings.  A           *)
(* JavaScript value is a record [t, s]: t is the result of typeof and s    *)
(* the characters of a string (<<>> for every other value).                *)
(***************************************************************************)
EXTENDS Naturals, Sequences, FiniteSets

VARIABLES
    options,      \* the argument of rehypeLinks(options); never written
    base,         \* the closure variable `base` of the transformer
    ast,          \* the tree the pipeline is rendering (mutated in place)
    input,        \* history: ast as the pipeline produced it
    astBefore,    \* history: ast at the start of the last invocation
    baseBefore,   \* history: base at the start of the last invocation
    firstBase,    \* history: base at the end of the first invocation
    calls,        \* history: invocations on the current ast
    invocations,  \* history: invocations of the transformer so far
    threw,        \* whether an invocation ended with an exception
    env,          \* import.meta.env.BASE_URL
    path,         \* the argument of the last call of url
    result,       \* the value the last call of url returned
    prevPath,     \* history: the argument of the call of url before
    prevResult,   \* history: the value that call returned
    base2,        \* the closure variable `base` of a second transformer
    who,          \* history: the transformer invoked last (0: none yet)
    pc,           \* "idle", or "visiting" while visit walks the tree
    stack,        \* the paths of the nodes visit has still to reach
    reached       \* history: the paths of the nodes the last walk reached

vars == <<options, base, ast, input, astBefore, baseBefore, firstBase,
          calls, invocations, threw, env, path, result, prevPath, prevResult,
          base2, who, pc, stack, reached>>
walkVars == <<pc, stack, reached>>
urlVars == <<env, path, result, prevPath, prevResult>>

(***************************************************************************)
(* Bounds                                                                  *)
(***************************************************************************)
MaxBaseLen == 3
MaxHrefLen == 3
MaxPathLen == 2
MaxDepth == 2
MaxInvocations == 3

(***************************************************************************)
(* JavaScript values                                                       *)
(***************************************************************************)
Undefined == [t |-> "undefined", s |-> <<>>]
Null == [t |-> "object", s |-> <<>>]
Number == [t |-> "number", s |-> <<>>]
Array == [t |-> "object", s |-> <<"/", "g">>]
Str(s) == [t |-> "string", s |-> s]
TypeOf(v) == v.t

Slash == <<"/">>

\* All strings over alphabet of length at most n
RECURSIVE StringsUpTo(_, _)
StringsUpTo(alphabet, n) ==
    IF n = 0 THEN {<<>>}
    ELSE LET shorter == StringsUpTo(alphabet, n - 1)
         IN shorter \cup {Append(s, c) : s \in shorter, c \in alphabet}

S_docs == <<"d", "o", "c", "s">>
S_guide == <<"g", "u", "i", "d", "e">>
S_https == <<"h", "t", "t", "p", "s", ":", "/", "/", "e", ".", "c", "/", "x">>
S_section == <<"#", "s", "e", "c">>

BaseStrings ==
    StringsUpTo({"/", "d"}, MaxBaseLen)
        \cup {S_docs, Slash \o S_docs, Slash \o S_docs \o Slash}

HrefStrings ==
    StringsUpTo({"/", "d"}, MaxHrefLen)
        \cup { Slash \o S_guide,                          \* /guide
               Slash \o S_docs \o Slash \o S_guide,       \* /docs/guide
               Slash \o S_docs,                           \* /docs
               Slash \o S_docs \o <<"-", "a", "/", "x">>,  \* /docs-a/x
               S_https,                                   \* https://e.c/x
               S_section,                                 \* #sec
               <<".", "/", "x">>,                         \* ./x
               <<".", ".", "/", "x">>,                    \* ../x
               <<"/", "/", "h", "/", "x">> }              \* //h/x

(***************************************************************************)
(* hast nodes: root, element and text nodes.  hasProperties = FALSE is an  *)
(* element whose `properties` is undefined.                                *)
(***************************************************************************)
\* title stands for the properties of an element other than href.
Node(type, tagName, hasProperties, href, children) ==
    [type |-> type, tagName |-> tagName, hasProperties |-> hasProperties,
     href |-> href,
     title |-> IF hasProperties THEN Str(<<"t">>) ELSE Undefined,
     children |-> children]
Text == Node("text", "", FALSE, Undefined, <<>>)
Element(tagName, href, children) == Node("element", tagName, TRUE, href, children)
Bare(tagName) == Node("element", tagName, FALSE, Undefined, <<>>)
Root(children) == Node("root", "", FALSE, Undefined, children)

HrefValues == {Str(s) : s \in HrefStrings} \cup {Undefined, Null, Number, Array}

\* One element under the root, over every href value
SingleTrees ==
    {Root(<<Element(tag, h, <<>>)>>) : tag \in {"a", "link"}, h \in HrefValues}
        \cup {Root(<<Bare("a")>>)}

\* Nested trees over a few hrefs: chains of elements at most depth deep,
\* alone under the root or followed by a sibling
SmallLeaves ==
    { Element("a", Str(Slash \o S_guide), <<>>),
      Element("link", Str(Slash \o S_guide), <<>>),
      Text }
RECURSIVE Chains(_)
Chains(depth) ==
    IF depth <= 1 THEN SmallLeaves
    ELSE LET below == Chains(depth - 1)
         IN below
              \cup {Element("a", Str(Slash \o S_guide), <<c>>) : c \in below}
              \cup {Element("div", Undefined, <<c>>) : c \in below}
NestedTrees ==
    {Root(<<c>>) : c \in Chains(MaxDepth)}
        \cup {Root(<<c, l>>) : c \in Chains(MaxDepth), l \in SmallLeaves}

TreeInputs == SingleTrees \cup NestedTrees

\* The argument of rehypeLinks: absent, or an object whose base is anything
OptionsInputs ==
    {[present |-> FALSE, base |-> Undefined]}
        \cup {[present |-> TRUE, base |-> b] :
                 b \in {Str(s) : s \in BaseStrings} \cup {Undefined, Number}}

(***************************************************************************)
(* The code of rehypeLinks                                                 *)
(***************************************************************************)
\* String.prototype.startsWith
StartsWith(s, prefix) ==
    /\ Len(prefix) <= Len(s)
    /\ SubSeq(s, 1, Len(prefix)) = prefix

\* mutant: a default base when none is configured
OptionsBaseDefault(o) ==
    IF o.present /\ o.base.t = "string" THEN o.base ELSE Str(Slash \o S_docs)

\* let base = options?.base
OptionsBase(o) == IF o.present THEN o.base ELSE Undefined

\* mutant: `let base` is declared at module level, one binding for all
SharesBindingAlways(t, u) == TRUE

\* `let base` is declared inside rehypeLinks: every call of rehypeLinks
\* creates a binding of its own, which only its transformer assigns
SharesBinding(t, u) == t = u

\* if (typeof base !== "string") return;
IsConfigured(b) == TypeOf(b) = "string"

\* mutant: "/" is prepended without the startsWith test
AddLeadingSlashAlways(s) == <<"/">> \o s

\* if (!base.startsWith("/")) base = "/" + base;
AddLeadingSlash(s) == IF ~StartsWith(s, Slash) THEN Slash \o s ELSE s

\* mutant: the trailing "/" is removed without the length test
DropTrailingSlashOfAny(s) ==
    IF Len(s) > 0 /\ s[Len(s)] = "/" THEN SubSeq(s, 1, Len(s) - 1) ELSE s

\* if (base.length > 1 && base[base.length - 1] === "/") base = base.slice(0, -1);
DropTrailingSlash(s) ==
    IF Len(s) > 1 /\ s[Len(s)] = "/" THEN SubSeq(s, 1, Len(s) - 1) ELSE s

\* the two assignments to base at the start of an invocation
NormalizeBase(b) == Str(DropTrailingSlash(AddLeadingSlash(b.s)))

\* mutant: the test that the href already starts with the base is missing
QualifiesAlreadyPrefixed(href, b) ==
    /\ TypeOf(href) = "string"
    /\ href.s # <<>> /\ href.s[1] = "/"

\* mutant: the test that the href starts with "/" is missing
QualifiesAnyPath(href, b) ==
    /\ TypeOf(href) = "string"
    /\ ~(Len(b.s) <= Len(href.s) /\ SubSeq(href.s, 1, Len(b.s)) = b.s)

\* mutant: only an href equal to the base counts as already prefixed
QualifiesUnlessEqual(href, b) ==
    /\ TypeOf(href) = "string"
    /\ href.s # <<>> /\ href.s[1] = "/"
    /\ href.s # b.s

\* mutant: the typeof test of the href is missing
QualifiesAnyType(href, b) ==
    /\ href.s # <<>> /\ href.s[1] = "/"
    /\ ~(Len(b.s) <= Len(href.s) /\ SubSeq(href.s, 1, Len(b.s)) = b.s)

\* mutant: the href is tested against the base followed by "/"
QualifiesUnderBase(href, b) ==
    /\ TypeOf(href) = "string"
    /\ href.s # <<>> /\ href.s[1] = "/"
    /\ ~(Len(b.s) + 1 <= Len(href.s)
            /\ SubSeq(href.s, 1, Len(b.s) + 1) = b.s \o <<"/">>)

\* the condition under which the callback assigns node.properties.href
Qualifies(href, b) ==
    /\ TypeOf(href) = "string"
    /\ StartsWith(href.s, Slash)
    /\ ~StartsWith(href.s, b.s)

\* mutant: the base is appended instead of prepended
RebasedBehind(href, b) ==
    IF TypeOf(href) = "string" /\ href.s # <<>> /\ href.s[1] = "/"
          /\ ~(Len(b.s) <= Len(href.s) /\ SubSeq(href.s, 1, Len(b.s)) = b.s)
    THEN Str(href.s \o b.s)
    ELSE href

\* node.properties.href after the callback
Rebased(href, b) == IF Qualifies(href, b) THEN Str(b.s \o href.s) ELSE href

\* const href = node.properties?.href: undefined when the node has no
\* properties
PropertiesHref(node) == IF node.hasProperties THEN node.href ELSE Undefined

\* mutant: anchors that have children are skipped
CallbackLeafOnly(node, b) ==
    IF node.tagName = "a" /\ node.hasProperties /\ node.children = <<>>
    THEN [node EXCEPT !.href = Rebased(PropertiesHref(node), b)]
    ELSE node

\* mutant: the test of the tag name is missing
CallbackAnyTag(node, b) ==
    IF node.hasProperties
    THEN [node EXCEPT !.href = Rebased(PropertiesHref(node), b)]
    ELSE node

\* the callback given to visit
Callback(node, b) ==
    IF node.tagName = "a" /\ node.hasProperties
    THEN [node EXCEPT !.href = Rebased(PropertiesHref(node), b)]
    ELSE node

\* the callback throws a TypeError when it assigns node.properties!.href on
\* a node without properties; every other access is guarded (?. and typeof)
CallbackThrows(node, b) ==
    /\ node.tagName = "a"
    /\ Qualifies(PropertiesHref(node), b)
    /\ ~node.hasProperties

\* visit(ast, "element", callback): the callback on every element node
RECURSIVE Visit(_, _)
Visit(node, b) ==
    LET visited == IF node.type = "element" THEN Callback(node, b) ELSE node
    IN [visited EXCEPT
          !.children = [i \in 1..Len(node.children) |-> Visit(node.children[i], b)]]

\* mutant: the callback returns SKIP for an anchor
CallbackResultSkip(node, b) == IF node.tagName = "a" THEN "skip" ELSE "continue"

\* what the callback returns to visit: it has no return statement, and
\* undefined tells visit to continue with the children of the node
CallbackResult(node, b) == "continue"

\* whether the callback throws on some element node of the tree
RECURSIVE VisitThrows(_, _)
VisitThrows(node, b) ==
    \/ node.type = "element" /\ CallbackThrows(node, b)
    \/ \E i \in 1..Len(node.children) : VisitThrows(node.children[i], b)

(***************************************************************************)
(* The code of url                                                         *)
(***************************************************************************)
\* const base = import.meta.env.BASE_URL || '/': undefined and "" are falsy
UrlBase(e) == IF TypeOf(e) = "string" /\ e.s # <<>> THEN e.s ELSE Slash

\* mutant: every leading "/" of the path is removed
CleanPathOfAll(p) ==
    LET n == Len(p)
        k == IF \A i \in 1..n : p[i] = "/" THEN n
             ELSE (CHOOSE j \in 1..n : p[j] # "/" /\ \A i \in 1..(j - 1) : p[i] = "/") - 1
    IN SubSeq(p, k + 1, n)

\* const cleanPath = path.startsWith('/') ? path.slice(1) : path
CleanPath(p) == IF StartsWith(p, Slash) THEN SubSeq(p, 2, Len(p)) ELSE p

\* mutant: the base is left out
UrlWithoutBase(e, p) == Str(Slash \o CleanPath(p))

\* return base + cleanPath
Url(e, p) == Str(UrlBase(e) \o CleanPath(p))

\* The values of BASE_URL and the paths given to url
EnvInputs == {Undefined} \cup {Str(s) : s \in BaseStrings}
PathStrings ==
    StringsUpTo({"/", "d"}, MaxPathLen) \cup {S_guide, Slash \o S_guide}

(***************************************************************************)
(* The state machine                                                       *)
(***************************************************************************)
NoBase == [t |-> "none", s |-> <<>>]

Init ==
    /\ options \in OptionsInputs
    /\ base = OptionsBase(options)
    /\ ast \in TreeInputs
    /\ input = ast
    /\ astBefore = ast
    /\ baseBefore = base
    /\ firstBase = NoBase
    /\ calls = 0
    /\ invocations = 0
    /\ threw = FALSE
    /\ base2 = OptionsBase(options)
    /\ who = 0
    /\ pc = "idle" /\ stack = <<>> /\ reached = <<>>
    /\ env = Undefined
    /\ path = NoBase /\ result = NoBase
    /\ prevPath = NoBase /\ prevResult = NoBase

\* One invocation of the transformer on the current tree
Transformer ==
    /\ invocations < MaxInvocations
    /\ IF ~IsConfigured(base)
       THEN UNCHANGED <<base, base2, ast, threw>>
       ELSE /\ base' = NormalizeBase(base)
            /\ base2' = IF SharesBinding(1, 2) THEN base' ELSE base2
            /\ ast' = Visit(ast, base')
            /\ threw' = (threw \/ VisitThrows(ast, base'))
    /\ astBefore' = ast
    /\ baseBefore' = base
    /\ firstBase' = IF invocations = 0 THEN base' ELSE firstBase
    /\ calls' = calls + 1
    /\ invocations' = invocations + 1
    /\ who' = 1
    /\ UNCHANGED <<options, input>>
    /\ UNCHANGED urlVars
    /\ UNCHANGED walkVars

\* The pipeline hands the transformer the tree of the next page
NextPage ==
    /\ invocations < MaxInvocations
    /\ calls > 0
    /\ ast' \in TreeInputs
    /\ input' = ast'
    /\ astBefore' = ast'
    /\ baseBefore' = base
    /\ calls' = 0
    /\ UNCHANGED <<options, base, firstBase, invocations, threw, base2, who>>
    /\ UNCHANGED urlVars
    /\ UNCHANGED walkVars

Next == Transformer \/ NextPage

Spec == Init /\ [][Next]_vars

(***************************************************************************)
(* Links made with url and then given to a transformer whose base is       *)
(* BASE_URL                                                                *)
(***************************************************************************)
InitUrl ==
    /\ env \in EnvInputs
    /\ options = [present |-> TRUE, base |-> env]
    /\ base = OptionsBase(options)
    /\ ast = Root(<<>>)
    /\ input = ast
    /\ astBefore = ast
    /\ baseBefore = base
    /\ firstBase = NoBase
    /\ calls = 0
    /\ invocations = 0
    /\ threw = FALSE
    /\ base2 = OptionsBase(options)
    /\ who = 0
    /\ pc = "idle" /\ stack = <<>> /\ reached = <<>>
    /\ path = NoBase /\ result = NoBase
    /\ prevPath = NoBase /\ prevResult = NoBase

\* A component calls url(p) and renders <a href={url(p)}> as the next page
UrlLink(p) ==
    /\ invocations < MaxInvocations
    /\ path' = Str(p)
    /\ result' = Url(env, p)
    /\ prevPath' = path
    /\ prevResult' = result
    /\ ast' = Root(<<Element("a", result', <<>>)>>)
    /\ input' = ast'
    /\ astBefore' = ast'
    /\ baseBefore' = base
    /\ calls' = 0
    /\ UNCHANGED <<options, base, firstBase, invocations, threw, env, base2, who>>
    /\ UNCHANGED walkVars

NextUrl == Transformer \/ \E p \in PathStrings : UrlLink(p)

SpecUrl == InitUrl /\ [][NextUrl]_vars

(***************************************************************************)
(* Two transformers made by two calls of rehypeLinks with the same options *)
(* object, invoked in any order on the tree                                *)
(***************************************************************************)
\* One invocation of the second transformer on the current tree
Transformer2 ==
    /\ invocations < MaxInvocations
    /\ IF ~IsConfigured(base2)
       THEN UNCHANGED <<base, base2, ast, threw>>
       ELSE /\ base2' = NormalizeBase(base2)
            /\ base' = IF SharesBinding(2, 1) THEN base2' ELSE base
            /\ ast' = Visit(ast, base2')
            /\ threw' = (threw \/ VisitThrows(ast, base2'))
    /\ astBefore' = ast
    /\ baseBefore' = base2
    /\ calls' = calls + 1
    /\ invocations' = invocations + 1
    /\ who' = 2
    /\ UNCHANGED <<options, input, firstBase>>
    /\ UNCHANGED urlVars
    /\ UNCHANGED walkVars

NextPair == Transformer \/ Transformer2

SpecPair == Init /\ [][NextPair]_vars

(***************************************************************************)
(* One invocation step by step: visit walks the tree in document order,    *)
(* calls the callback on every element node it reaches and reads the       *)
(* children of a node after the callback returned                          *)
(***************************************************************************)
RECURSIVE NodeAt(_, _)
NodeAt(node, p) ==
    IF p = <<>> THEN node ELSE NodeAt(node.children[Head(p)], Tail(p))

RECURSIVE ReplaceAt(_, _, _)
ReplaceAt(node, p, n) ==
    IF p = <<>> THEN n
    ELSE [node EXCEPT
            !.children[Head(p)] = ReplaceAt(node.children[Head(p)], Tail(p), n)]

ChildPaths(p, node) == [i \in 1..Len(node.children) |-> Append(p, i)]

\* The transformer is called: the guard, the normalization, and visit begins
VisitStart ==
    /\ pc = "idle"
    /\ invocations < MaxInvocations
    /\ IF ~IsConfigured(base)
       THEN UNCHANGED <<base, base2, pc, stack, reached>>
       ELSE /\ base' = NormalizeBase(base)
            /\ base2' = IF SharesBinding(1, 2) THEN base' ELSE base2
            /\ pc' = "visiting"
            /\ stack' = << <<>> >>
            /\ reached' = <<>>
    /\ astBefore' = ast
    /\ baseBefore' = base
    /\ firstBase' = IF invocations = 0 THEN base' ELSE firstBase
    /\ calls' = calls + 1
    /\ invocations' = invocations + 1
    /\ who' = 1
    /\ UNCHANGED <<options, input, ast, threw>>
    /\ UNCHANGED urlVars

\* visit reaches the next node; an exception of the callback ends the walk
VisitStep ==
    /\ pc = "visiting"
    /\ LET p == Head(stack)
           node == NodeAt(ast, p)
           isElement == node.type = "element"
           throws == isElement /\ CallbackThrows(node, base)
           after == IF isElement /\ ~throws THEN Callback(node, base) ELSE node
           res == IF isElement THEN CallbackResult(node, base) ELSE "continue"
           rest == IF throws \/ res = "exit" THEN <<>>
                   ELSE IF res = "skip" THEN Tail(stack)
                   ELSE ChildPaths(p, after) \o Tail(stack)
       IN /\ ast' = ReplaceAt(ast, p, after)
          /\ threw' = (threw \/ throws)
          /\ reached' = Append(reached, p)
          /\ stack' = rest
          /\ pc' = IF rest = <<>> THEN "idle" ELSE "visiting"
    /\ UNCHANGED <<options, base, base2, input, astBefore, baseBefore, firstBase,
                   calls, invocations, who>>
    /\ UNCHANGED urlVars

NextVisit == VisitStart \/ VisitStep

SpecVisit == Init /\ [][NextVisit]_vars

(***************************************************************************)
(* Vocabulary of the properties                                            *)
(***************************************************************************)
\* The nodes of a tree in document order, without their children
RECURSIVE Nodes(_)
RECURSIVE NodesOfAll(_)
Nodes(node) == <<[node EXCEPT !.children = <<>>]>> \o NodesOfAll(node.children)
NodesOfAll(children) ==
    IF children = <<>> THEN <<>>
    ELSE Nodes(Head(children)) \o NodesOfAll(Tail(children))

\* The shape of a tree: every node's number of children, in document order
RECURSIVE Shape(_)
RECURSIVE ShapeOfAll(_)
Shape(node) == <<Len(node.children)>> \o ShapeOfAll(node.children)
ShapeOfAll(children) ==
    IF children = <<>> THEN <<>>
    ELSE Shape(Head(children)) \o ShapeOfAll(Tail(children))

IsAnchor(n) == n.type = "element" /\ n.tagName = "a"
HasHref(n) == n.hasProperties /\ n.href.t = "string"
BeginsWith(s, p) == \E k \in 0..Len(s) : Len(p) = k /\ \A i \in 1..k : s[i] = p[i]
RootRelative(s) == Len(s) >= 1 /\ s[1] = "/"

Invoked == calls >= 1
Configured == options.present /\ options.base.t = "string"
NodesBefore == Nodes(astBefore)
NodesAfter == Nodes(ast)
SameNodesButHref ==
    /\ Shape(ast) = Shape(astBefore)
    /\ \A i \in 1..Len(NodesBefore) :
          [NodesAfter[i] EXCEPT !.href = Undefined]
              = [NodesBefore[i] EXCEPT !.href = Undefined]

\* C1: one invocation with normalized base B replaces every root-relative
\* anchor href h that does not start with B by B \o h, and leaves every
\* other anchor href as it was.
C1_RebaseExactly ==
    (Invoked /\ Configured) =>
        /\ SameNodesButHref
        /\ \A i \in 1..Len(NodesBefore) :
              LET n == NodesBefore[i]
                  m == NodesAfter[i]
              IN IsAnchor(n) =>
                    IF HasHref(n) /\ RootRelative(n.href.s)
                                  /\ ~BeginsWith(n.href.s, base.s)
                    THEN m.href = Str(base.s \o n.href.s)
                    ELSE m.href = n.href

\* base "/docs", href "/guide" has become "/docs/guide"
C1_Witness ==
    /\ Invoked /\ Configured
    /\ base = Str(Slash \o S_docs)
    /\ astBefore = Root(<<Element("a", Str(Slash \o S_guide), <<>>)>>)
    /\ ast = Root(<<Element("a", Str(Slash \o S_docs \o Slash \o S_guide), <<>>)>>)

\* C2: a transformer built with no base (options absent, base undefined or
\* base not a string) leaves every href of every node and the stored base
\* unchanged.
C2_NoBaseNoOp ==
    (Invoked /\ ~Configured) => (ast = astBefore /\ ast = input /\ base = baseBefore)

\* no options at all, href "/guide" is still "/guide" after the invocation
C2_Witness ==
    /\ Invoked
    /\ ~options.present
    /\ ast = Root(<<Element("a", Str(Slash \o S_guide), <<>>)>>)

\* C3: a second invocation of the transformer on the same tree changes no
\* href, and no href grows by more than one base prefix.
C3_Idempotent ==
    Configured =>
        /\ calls >= 2 => ast = astBefore
        /\ \A i \in 1..Len(Nodes(input)) :
              LET n == Nodes(input)[i]
                  m == NodesAfter[i]
              IN (IsAnchor(n) /\ HasHref(n)) =>
                    /\ HasHref(m)
                    /\ Len(m.href.s) <= Len(n.href.s) + Len(options.base.s) + 1

\* base "d//": the first invocation rewrote an href with "/d/", the second
\* one, whose base is "/d", left it alone
C3_Witness ==
    /\ calls = 2
    /\ options.base = Str(<<"d", "/", "/">>)
    /\ input = Root(<<Element("a", Str(Slash \o S_guide), <<>>)>>)
    /\ ast = Root(<<Element("a", Str(<<"/", "d", "/">> \o Slash \o S_guide), <<>>)>>)
    /\ base = Str(<<"/", "d">>)

\* C4: an anchor href that does not start with "/" is never modified,
\* whatever the base.
C4_OnlyRootRelative ==
    \A i \in 1..Len(Nodes(input)) :
        LET n == Nodes(input)[i]
        IN (IsAnchor(n) /\ HasHref(n) /\ ~RootRelative(n.href.s)) =>
              NodesAfter[i].href = n.href

\* base "/docs", href "#sec" is still "#sec" after the invocation
C4_Witness ==
    /\ Invoked
    /\ base = Str(Slash \o S_docs)
    /\ ast = Root(<<Element("a", Str(S_section), <<>>)>>)

\* C5: absolute (https:), relative (./ and ../), fragment-only (#) and
\* protocol-relative (//) hrefs are left untouched, whatever the base.
OutOfScope(s) ==
    \/ BeginsWith(s, <<"h", "t", "t", "p", "s", ":">>)
    \/ BeginsWith(s, <<".", "/">>)
    \/ BeginsWith(s, <<".", ".", "/">>)
    \/ BeginsWith(s, <<"#">>)
    \/ BeginsWith(s, <<"/", "/">>)
C5_OutOfScopeUntouched ==
    \A i \in 1..Len(Nodes(input)) :
        LET n == Nodes(input)[i]
        IN (IsAnchor(n) /\ HasHref(n) /\ OutOfScope(n.href.s)) =>
              NodesAfter[i].href = n.href

\* C6: the first invocation prepends "/" to a base that does not start with
\* "/", then removes one trailing "/" when the result is longer than one
\* character: "docs", "/docs" and "/docs/" give "/docs", and "/" gives "/".
C6_Expected(s) ==
    LET led == IF RootRelative(s) THEN s ELSE <<"/">> \o s
    IN IF Len(led) > 1 /\ led[Len(led)] = "/"
       THEN [i \in 1..(Len(led) - 1) |-> led[i]]
       ELSE led
C6_FirstNormalization ==
    (invocations >= 1 /\ Configured) =>
        /\ firstBase = Str(C6_Expected(options.base.s))
        /\ options.base.s \in {S_docs, Slash \o S_docs, Slash \o S_docs \o Slash}
              => firstBase = Str(Slash \o S_docs)
        /\ options.base.s = Slash => firstBase = Str(Slash)

\* base "/docs/" has become "/docs"
C6_Witness ==
    /\ invocations = 1
    /\ options.base = Str(Slash \o S_docs \o Slash)
    /\ firstBase = Str(Slash \o S_docs)
    /\ base = firstBase

\* C7: the base used for rewriting in any invocation is non-empty, begins
\* with "/", and does not end with "/" unless it is exactly "/".
C7_NormalForm ==
    (invocations >= 1 /\ Configured) =>
        /\ base.s # <<>>
        /\ RootRelative(base.s)
        /\ base.s[Len(base.s)] = "/" => base.s = Slash

\* C8: normalizing the normalized value again yields the same value: the
\* base used in every later invocation is the base used in the first.
C8_NormalizeIdempotent ==
    (invocations >= 1 /\ Configured) => base = firstBase

\* C9: no invocation writes the stored base: it is the same before and
\* after every invocation.
C9_BaseReadOnly ==
    Invoked => base = baseBefore

\* C10: the result for a tree does not depend on how many trees the
\* transformer processed before it: it is the result the tree has when it
\* is the first tree the transformer processes.
C10_OrderIndependent ==
    (calls = 1 /\ Configured) =>
        ast = Visit(input, NormalizeBase(OptionsBase(options)))

\* C11: an anchor href that equals the normalized base or starts with it is
\* left untouched by the invocation.
C11_AlreadyPrefixedUntouched ==
    (Invoked /\ Configured) =>
        \A i \in 1..Len(NodesBefore) :
            LET n == NodesBefore[i]
            IN (IsAnchor(n) /\ HasHref(n) /\ BeginsWith(n.href.s, base.s)) =>
                  NodesAfter[i].href = n.href

\* base "/docs", href "/docs/guide" is still "/docs/guide"
C11_Witness ==
    /\ Invoked
    /\ base = Str(Slash \o S_docs)
    /\ astBefore = Root(<<Element("a", Str(Slash \o S_docs \o Slash \o S_guide), <<>>)>>)
    /\ ast = astBefore

\* C12: no invocation throws, and anchors without properties, without href
\* or with an href that is not a string are left as they were.
C12_Malformed(n) ==
    IsAnchor(n) /\ (~n.hasProperties \/ n.href.t # "string")
C12_NoError ==
    /\ ~threw
    /\ \A i \in 1..Len(Nodes(input)) :
          C12_Malformed(Nodes(input)[i]) => NodesAfter[i] = Nodes(input)[i]

\* a string base, an anchor whose href is an array, after the invocation
C12_Witness ==
    /\ Invoked
    /\ base = Str(Slash \o S_docs)
    /\ ast = Root(<<Element("a", Array, <<>>)>>)
    /\ ~threw

\* C13: a configured base of "/" or of "" causes no rewriting: every href of
\* every tree is as the pipeline produced it.
C13_RootBaseNoRewrite ==
    (Configured /\ options.base.s \in {<<>>, Slash}) => ast = input

\* base "": the first invocation stored "/" and left "/guide" alone
C13_Witness ==
    /\ Invoked
    /\ options.base = Str(<<>>)
    /\ base = Str(Slash)
    /\ ast = Root(<<Element("a", Str(Slash \o S_guide), <<>>)>>)

\* C14: after one invocation every anchor whose href qualified, at any depth,
\* carries the base exactly once: none is skipped, none is prefixed twice.
C14_Qualified(n, b) ==
    IsAnchor(n) /\ HasHref(n) /\ RootRelative(n.href.s) /\ ~BeginsWith(n.href.s, b)
C14_EveryAnchorOnce ==
    (Invoked /\ Configured) =>
        \A i \in 1..Len(NodesBefore) :
            LET n == NodesBefore[i]
            IN C14_Qualified(n, base.s) =>
                  /\ NodesAfter[i].href.s = base.s \o n.href.s
                  /\ NodesAfter[i].href.s # base.s \o base.s \o n.href.s

\* an anchor inside an anchor, followed by a third anchor of the same href:
\* all three carry "/docs" once
C14_Witness ==
    /\ calls = 1
    /\ base = Str(Slash \o S_docs)
    /\ input = Root(<<Element("a", Str(Slash \o S_guide),
                              <<Element("a", Str(Slash \o S_guide), <<>>)>>),
                      Element("a", Str(Slash \o S_guide), <<>>)>>)
    /\ \A i \in 2..4 : NodesAfter[i].href = Str(Slash \o S_docs \o Slash \o S_guide)

\* C17: after an invocation with a string base B every root-relative anchor
\* href designates a location under B: it is B itself or starts with B
\* followed by "/" (every path is under the base "/").
C17_Under(h, b) ==
    \/ b = Slash
    \/ h = b
    \/ BeginsWith(h, b \o Slash)
C17_UnderBase ==
    (Invoked /\ Configured) =>
        \A i \in 1..Len(NodesAfter) :
            LET m == NodesAfter[i]
            IN (IsAnchor(m) /\ HasHref(m) /\ RootRelative(m.href.s)) =>
                  C17_Under(m.href.s, base.s)

\* C18: an invocation changes nothing but the href of elements whose tag
\* name is "a": the shape, the tag names, the text nodes, the other
\* properties of anchors and every property of other elements stay.
C18_OnlyAnchorHref ==
    Invoked =>
        /\ SameNodesButHref
        /\ \A i \in 1..Len(NodesBefore) :
              ~IsAnchor(NodesBefore[i]) => NodesAfter[i] = NodesBefore[i]

\* base "/docs": the href "/guide" of a link element under a rewritten
\* anchor is still "/guide"
C18_Witness ==
    /\ Invoked
    /\ base = Str(Slash \o S_docs)
    /\ astBefore = Root(<<Element("a", Str(Slash \o S_guide),
                                  <<Element("link", Str(Slash \o S_guide), <<>>)>>)>>)
    /\ ast = Root(<<Element("a", Str(Slash \o S_docs \o Slash \o S_guide),
                            <<Element("link", Str(Slash \o S_guide), <<>>)>>)>>)

\* C19: after an invocation with a string base every anchor href that is a
\* string starting with "/" starts with the base used in that invocation.
C19_StartsWithBase ==
    (Invoked /\ Configured) =>
        \A i \in 1..Len(NodesAfter) :
            LET m == NodesAfter[i]
            IN (IsAnchor(m) /\ HasHref(m) /\ RootRelative(m.href.s)) =>
                  BeginsWith(m.href.s, base.s)

\* base "dd/" was used as "/dd": "/d" has become "/dd/d"
C19_Witness ==
    /\ Invoked
    /\ options.base = Str(<<"d", "d", "/">>)
    /\ astBefore = Root(<<Element("a", Str(<<"/", "d">>), <<>>)>>)
    /\ ast = Root(<<Element("a", Str(<<"/", "d", "d", "/", "d">>), <<>>)>>)

\* C15: url(path) is the base followed by the path without at most one
\* leading "/", the base being BASE_URL, or "/" when BASE_URL is empty or
\* undefined; hence url(p) = url("/" \o p) when p does not start with "/".
C15_Base == IF env = Undefined \/ env = Str(<<>>) THEN <<"/">> ELSE env.s
C15_Stripped(p) ==
    IF RootRelative(p) THEN [i \in 1..(Len(p) - 1) |-> p[i + 1]] ELSE p
C15_UrlJoin ==
    /\ path.t = "string" => result = Str(C15_Base \o C15_Stripped(path.s))
    /\ (path.t = "string" /\ prevPath.t = "string" /\ ~RootRelative(path.s)
          /\ prevPath.s = <<"/">> \o path.s) => result = prevResult

\* BASE_URL "/docs/": url("/guide") and then url("guide") gave "/docs/guide"
C15_Witness ==
    /\ env = Str(Slash \o S_docs \o Slash)
    /\ prevPath = Str(Slash \o S_guide)
    /\ path = Str(S_guide)
    /\ result = Str(Slash \o S_docs \o Slash \o S_guide)
    /\ prevResult = result

\* C16: for a non-empty path, url(path) is the path placed under the base:
\* exactly one "/" separates the base and the path, also when BASE_URL does
\* not end with "/".
C16_BaseStem ==
    IF C15_Base[Len(C15_Base)] = "/"
    THEN [i \in 1..(Len(C15_Base) - 1) |-> C15_Base[i]]
    ELSE C15_Base
C16_OneSeparator ==
    (path.t = "string" /\ path.s # <<>>) =>
        result = Str(C16_BaseStem \o <<"/">> \o C15_Stripped(path.s))

\* C20: an href made by url under BASE_URL V is never prefixed by a
\* transformer whose base is V, in its first or in any later invocation.
C20_UrlNotRebased ==
    path.t = "string" => ast = Root(<<Element("a", result, <<>>)>>)

\* BASE_URL "/docs/": the second invocation on the link "/docs/guide"
C20_Witness ==
    /\ env = Str(Slash \o S_docs \o Slash)
    /\ path = Str(S_guide)
    /\ calls = 2
    /\ base = Str(Slash \o S_docs)
    /\ ast = Root(<<Element("a", Str(Slash \o S_docs \o Slash \o S_guide), <<>>)>>)

\* C21: the stored base stops changing after finitely many invocations: an
\* invocation removes at most one trailing "/", the stored value is a prefix
\* of the earlier one with its leading "/", a value that is "/" or does not
\* end with "/" stays, and from invocation number Len(configured base) on
\* (the second at the earliest) nothing changes any more.
C21_Led == IF RootRelative(baseBefore.s) THEN baseBefore.s ELSE <<"/">> \o baseBefore.s
C21_Settled(s) == s = <<"/">> \/ (s # <<>> /\ s[1] = "/" /\ s[Len(s)] # "/")
C21_BaseSettles ==
    (Invoked /\ Configured) =>
        /\ BeginsWith(C21_Led, base.s)
        /\ Len(base.s) >= Len(C21_Led) - 1
        /\ C21_Settled(baseBefore.s) => base = baseBefore
        /\ (invocations >= 2 /\ invocations >= Len(options.base.s)) => base = baseBefore

\* base "///": "//" after the first invocation, "/" after the second, and
\* the third left it alone
C21_Witness ==
    /\ Invoked
    /\ options.base = Str(<<"/", "/", "/">>)
    /\ firstBase = Str(<<"/", "/">>)
    /\ invocations = 3
    /\ baseBefore = Str(Slash)
    /\ base = Str(Slash)

\* C22: with the base "/", url(path) is root-relative and never
\* protocol-relative: it does not start with "//", also for a path that
\* begins with two or more slashes.
C22_NotProtocolRelative ==
    (path.t = "string" /\ C15_Base = <<"/">>) =>
        /\ RootRelative(result.s)
        /\ ~BeginsWith(result.s, <<"/", "/">>)

\* C23: transformers made by separate calls of rehypeLinks are independent,
\* also when made from the same options object: an invocation of one never
\* changes the base of the other, and no invocation changes the options.
C23_Independent ==
    [][ /\ options' = options
        /\ (invocations' # invocations /\ who' = 1) => base2' = base2
        /\ (invocations' # invocations /\ who' = 2) => base' = base ]_vars

\* base "d//": the first transformer was invoked twice and uses "/d", then
\* the second one was invoked for the first time and uses "/d/"
C23_Witness ==
    /\ options.base = Str(<<"d", "/", "/">>)
    /\ invocations = 3
    /\ who = 2
    /\ base = Str(<<"/", "d">>)
    /\ base2 = Str(<<"/", "d", "/">>)

\* C24: an invocation on a finite tree ends after it has reached every node,
\* and so every element node, exactly once: no node is reached twice, the
\* walk is never longer than the tree has nodes and never stuck, the tree
\* keeps its shape, and at the end the nodes reached are the nodes of the
\* tree in document order.
RECURSIVE C24_Paths(_, _)
RECURSIVE C24_PathsOfAll(_, _, _)
C24_Paths(node, p) == <<p>> \o C24_PathsOfAll(node.children, p, 1)
C24_PathsOfAll(children, p, i) ==
    IF i > Len(children) THEN <<>>
    ELSE C24_Paths(children[i], Append(p, i)) \o C24_PathsOfAll(children, p, i + 1)
C24_VisitsOnce ==
    /\ \A i, j \in 1..Len(reached) : i # j => reached[i] # reached[j]
    /\ Len(reached) <= Len(NodesBefore)
    /\ pc = "visiting" => (stack # <<>> /\ ENABLED VisitStep)
    /\ Shape(ast) = Shape(astBefore)
    /\ (pc = "idle" /\ Invoked /\ Configured) =>
          reached = C24_Paths(astBefore, <<>>)

\* base "/docs": the walk over an anchor inside an anchor and a third
\* anchor has ended; it reached the root and the three anchors once each,
\* and all three were rewritten on the way
C24_Witness ==
    /\ pc = "idle"
    /\ Invoked
    /\ base = Str(Slash \o S_docs)
    /\ astBefore = Root(<<Element("a", Str(Slash \o S_guide),
                                  <<Element("a", Str(Slash \o S_guide), <<>>)>>),
                          Element("a", Str(Slash \o S_guide), <<>>)>>)
    /\ reached = << <<>>, <<1>>, <<1, 1>>, <<2>> >>
    /\ \A i \in 2..4 : NodesAfter[i].href = Str(Slash \o S_docs \o Slash \o S_guide)

====
